---- MODULE Spec2Model ----
(***************************************************************************)
(* Model of src/src/mcp_calendar/calendar.py: the create_calendar_event    *)
(* tool, its credential provider get_calendar_service and its time         *)
(* resolver parse_natural_datetime.  Every invocation of the tool is a     *)
(* process walking the statements of the source; the token file, the       *)
(* authorization server and the calendar service are shared.               *)
(***************************************************************************)
EXTENDS Integers, Sequences, FiniteSets, TLC

VARIABLES
    token_file,      \* content of the file named by GOOGLE_TOKEN_FILE
    env_tz,          \* the CALENDAR_TIMEZONE environment variable (optional)
    nextToken,       \* next access token the authorization server issues
    calls,           \* invocations started so far
    pc,              \* per invocation: the statement it is about to run
    req,             \* per invocation: the arguments of the call
    found,           \* per invocation: what os.path.exists answered
    loaded,          \* per invocation: the file content read at line 30
    creds,           \* per invocation: the local variable creds
    service,         \* per invocation: whether build() returned a service
    start_datetime,  \* per invocation: local start_datetime (optional)
    end_datetime,    \* per invocation: local end_datetime (optional)
    body,            \* per invocation: the record passed to insert (optional)
    result,          \* per invocation: the string returned (optional)
    raised,          \* per invocation: the exception raised (optional)
    n,               \* per invocation: how often each external step was issued
    wrote            \* per invocation: the content it wrote to the token file

vars == <<token_file, env_tz, nextToken, calls, pc, req, found, loaded, creds,
          service, start_datetime, end_datetime, body, result, raised, n,
          wrote>>

(***************************************************************************)
(* Bounds of the model.                                                    *)
(***************************************************************************)
MaxCalls == 3        \* invocations started in one behaviour
MaxDay == 2          \* last day the datetime type can represent
MaxAttendees == 2    \* longest attendees list

\* Invocation slots, and the two callers of the main specification.
Procs == {"p1", "p2", "p3"}
Callers == {"p1", "p2"}

\* Optional[T]: None or a value.
None == <<>>
Some(x) == <<x>>

(***************************************************************************)
(* Credentials and the token file.                                         *)
(***************************************************************************)
Content(k, t, e, r) == [kind |-> k, token |-> t, expired |-> e, refresh_token |-> r]

NoCreds == Content("none", 0, FALSE, FALSE)
FileAbsent == Content("absent", 0, FALSE, FALSE)
FileEmpty == Content("empty", 0, FALSE, FALSE)
FileTorn == Content("torn", 0, FALSE, FALSE)

\* Credentials.valid: an access token is held and it has not expired.
Valid(c) == c.token # 0 /\ ~c.expired

\* creds.to_json() and Credentials.from_authorized_user_file
ToJson(c) == Content("cred", c.token, c.expired, c.refresh_token)
FromJson(f) == Content("creds", f.token, f.expired, f.refresh_token)

\* Mutant: an invalid credential always goes to the interactive flow.
BranchNoRefresh(c) == IF c = NoCreds \/ ~Valid(c) THEN "flow" ELSE "build"

\* Mutant: the validity test is dropped, a loaded credential is always renewed.
BranchAlwaysRenew(c) ==
    IF c # NoCreds /\ c.refresh_token THEN "refresh" ELSE "flow"

\* The branch of lines 33-34 taken with the local creds c.
BranchOf(c) ==
    IF c = NoCreds \/ ~Valid(c)
    THEN IF c # NoCreds /\ c.expired /\ c.refresh_token THEN "refresh" ELSE "flow"
    ELSE "build"

\* Token files a deployment can start from.
InitFiles ==
    {FileAbsent,
     Content("cred", 1, FALSE, TRUE),     \* valid
     Content("cred", 1, TRUE, TRUE),      \* expired, refreshable
     Content("cred", 1, TRUE, FALSE),     \* expired, no refresh token
     Content("cred", 0, FALSE, TRUE)}     \* no access token, not expired

\* What the file holds after an invocation writes c at offset 0 of content f:
\* on a truncated file exactly c; over content another invocation flushed in
\* between, c or a mix of both serialisations.
Overlay(f, c) == IF f.kind = "empty" THEN {ToJson(c)} ELSE {ToJson(c), FileTorn}

(***************************************************************************)
(* Exceptions and the strings the tool returns.                            *)
(***************************************************************************)
HttpErrors == {[kind |-> "HttpError", msg |-> <<"quota", "exceeded">>]}
OtherErrors == {[kind |-> "Exception", msg |-> <<"An", "error", "occurred", ":", "x">>]}
EventIds == {"e1", "None"}

\* str(e): HttpError renders itself around its reason, others as their message.
Str(e) == IF e.kind = "HttpError" THEN <<"<HttpError">> \o e.msg \o <<">">> ELSE e.msg

HttpPrefix == <<"An", "error", "occurred", ":">>
GenericPrefix == <<"An", "unexpected", "error", "occurred", ":">>
SuccessPrefix == <<"Event", "created", "successfully", "!", "Event", "ID", ":">>

\* Mutant: only the HttpError clause; any other exception propagates.
HandleNoGeneric(e) ==
    IF e.kind = "HttpError"
    THEN [returned |-> TRUE, value |-> HttpPrefix \o Str(e)]
    ELSE [returned |-> FALSE, value |-> <<>>]

\* Mutant: the generic clause comes first and shadows the HttpError clause.
HandleGenericFirst(e) ==
    IF e.kind \in {"HttpError", "Exception"}
    THEN [returned |-> TRUE, value |-> GenericPrefix \o Str(e)]
    ELSE [returned |-> FALSE, value |-> <<>>]

\* The except clauses of lines 119-122, tried in order.
Handle(e) ==
    IF e.kind = "HttpError"
    THEN [returned |-> TRUE, value |-> HttpPrefix \o Str(e)]
    ELSE IF e.kind \in {"HttpError", "Exception"}
         THEN [returned |-> TRUE, value |-> GenericPrefix \o Str(e)]
         ELSE [returned |-> FALSE, value |-> <<>>]

\* Line 117
SuccessString(id) == SuccessPrefix \o <<id>>

(***************************************************************************)
(* Time resolution.                                                        *)
(***************************************************************************)
DT(d, h, m) == [day |-> d, hour |-> h, minute |-> m]
Nows == {DT(1, 10, 0), DT(1, 23, 30), DT(MaxDay, 23, 30)}

StartTexts == {"2024-01-15 10:00", "tomorrow at 2pm", "asdf"}
EndTexts == {"2024-01-15 11:30", "asdf"}

\* parse_natural_datetime(text) run at wall-clock time now: the datetime, or
\* ok = FALSE when constructing it raises.
parse_natural_datetime(text, now) ==
    CASE text = "2024-01-15 10:00" -> [ok |-> TRUE, dt |-> DT(1, 10, 0)]
      [] text = "2024-01-15 11:30" -> [ok |-> TRUE, dt |-> DT(1, 11, 30)]
      [] text = "tomorrow at 2pm" ->
            IF now.day < MaxDay
            THEN [ok |-> TRUE, dt |-> DT(now.day + 1, 14, 0)]
            ELSE [ok |-> FALSE, dt |-> now]
      [] OTHER -> [ok |-> TRUE, dt |-> now]

\* Mutant: the hour wraps around without carrying into the day.
AddHourNoCarry(dt) == [ok |-> TRUE, dt |-> DT(dt.day, (dt.hour + 1) % 24, dt.minute)]

\* start_datetime + datetime.timedelta(hours=1)
AddHour(dt) ==
    IF dt.hour < 23 THEN [ok |-> TRUE, dt |-> DT(dt.day, dt.hour + 1, dt.minute)]
    ELSE IF dt.day < MaxDay THEN [ok |-> TRUE, dt |-> DT(dt.day + 1, 0, dt.minute)]
    ELSE [ok |-> FALSE, dt |-> dt]

\* datetime.isoformat(): date, then time of day.
IsoFormat(dt) == <<dt.day, dt.hour, dt.minute>>

(***************************************************************************)
(* Requests and the event record.                                          *)
(***************************************************************************)
Emails == {"a@x.com", "b@x.com"}
RECURSIVE SeqsUpTo(_, _)
SeqsUpTo(S, k) ==
    IF k = 0 THEN {<<>>}
    ELSE LET shorter == SeqsUpTo(S, k - 1)
         IN shorter \cup {Append(s, x) : s \in shorter, x \in S}

Request(s, st, et, d, l, a) ==
    [summary |-> s, start_time |-> st, end_time |-> et, description |-> d,
     location |-> l, attendees |-> a]

AllRequests ==
    {Request("Team Sync", st, et, d, l, a) :
        st \in StartTexts,
        et \in {None, Some("")} \cup {Some(t) : t \in EndTexts},
        d \in {None, Some(""), Some("agenda")},
        l \in {None, Some(""), Some("room 1")},
        a \in {None} \cup {Some(s) : s \in SeqsUpTo(Emails, MaxAttendees)}}

\* The request of the concurrent specification.
Requests ==
    {Request("Team Sync", "tomorrow at 2pm", None, None, None,
             Some(<<"a@x.com", "b@x.com">>))}

\* Python truthiness of an optional string or list argument.
Truthy(opt) == opt # None /\ Len(opt[1]) > 0
StrTruthy(opt) == opt # None /\ opt[1] # ""

\* os.getenv('CALENDAR_TIMEZONE', 'UTC')
GetTimezone == IF env_tz = None THEN "UTC" ELSE env_tz[1]

\* Mutant: the key is set whether or not the argument is truthy.
WithKeyAlways(cond, key, val, ev) == (key :> val) @@ ev

WithKey(cond, key, val, ev) == IF cond THEN (key :> val) @@ ev ELSE ev

\* Mutant: the attendees come out in reverse order.
AttendeeRecordsReversed(a) == [i \in 1..Len(a) |-> [email |-> a[Len(a) + 1 - i]]]

\* [{'email': email} for email in attendees]
AttendeeRecords(a) == [i \in 1..Len(a) |-> [email |-> a[i]]]

\* Lines 95-113: the record built from the arguments and the resolved times.
BuildEvent(r, s, e, tz) ==
    LET base == [summary |-> r.summary,
                 start |-> [dateTime |-> IsoFormat(s), timeZone |-> tz],
                 end |-> [dateTime |-> IsoFormat(e), timeZone |-> tz]]
        e1 == WithKey(StrTruthy(r.description), "description",
                      IF r.description = None THEN "" ELSE r.description[1], base)
        e2 == WithKey(StrTruthy(r.location), "location",
                      IF r.location = None THEN "" ELSE r.location[1], e1)
    IN WithKey(Truthy(r.attendees), "attendees",
               IF r.attendees = None THEN <<>> ELSE AttendeeRecords(r.attendees[1]), e2)

(***************************************************************************)
(* The state after the server has started: nothing invoked yet.            *)
(***************************************************************************)
NoCounts == [refresh |-> 0, flow |-> 0, open |-> 0, write |-> 0, build |-> 0,
             parse |-> 0, insert |-> 0]

Init ==
    /\ token_file \in InitFiles
    /\ env_tz \in {None, Some("Europe/Paris")}
    /\ nextToken = 2
    /\ calls = 0
    /\ pc = [p \in Procs |-> "idle"]
    /\ req = [p \in Procs |-> None]
    /\ found = [p \in Procs |-> "unknown"]
    /\ loaded = [p \in Procs |-> None]
    /\ creds = [p \in Procs |-> NoCreds]
    /\ service = [p \in Procs |-> FALSE]
    /\ start_datetime = [p \in Procs |-> None]
    /\ end_datetime = [p \in Procs |-> None]
    /\ body = [p \in Procs |-> None]
    /\ result = [p \in Procs |-> None]
    /\ raised = [p \in Procs |-> None]
    /\ n = [p \in Procs |-> NoCounts]
    /\ wrote = [p \in Procs |-> None]

shared == <<token_file, env_tz, nextToken, calls>>
times == <<start_datetime, end_datetime>>
outcome == <<result, raised>>

Count(p, step) == n' = [n EXCEPT ![p][step] = @ + 1]
Goto(p, label) == pc' = [pc EXCEPT ![p] = label]

\* An exception e leaves the try block of invocation p: lines 119-122.
Fail(p, e) ==
    LET h == Handle(e)
    IN /\ raised' = [raised EXCEPT ![p] = Some([exc |-> e, at |-> pc[p]])]
       /\ result' = [result EXCEPT ![p] = IF h.returned THEN Some(h.value) ELSE None]
       /\ Goto(p, IF h.returned THEN "done" ELSE "escaped")

\* The agent calls the tool with arguments r.
Invoke(p, r) ==
    /\ pc[p] = "idle"
    /\ calls < MaxCalls
    /\ calls' = calls + 1
    /\ req' = [req EXCEPT ![p] = Some(r)]
    /\ Goto(p, "exists")
    /\ UNCHANGED <<token_file, env_tz, nextToken, found, loaded, creds, service,
                   times, body, outcome, n, wrote>>

\* Line 29: os.path.exists(token_file); without a file creds stays None.
Exists(p) ==
    /\ pc[p] = "exists"
    /\ IF token_file.kind # "absent"
       THEN /\ found' = [found EXCEPT ![p] = "yes"]
            /\ Goto(p, "load")
       ELSE /\ found' = [found EXCEPT ![p] = "no"]
            /\ Goto(p, BranchOf(NoCreds))
    /\ UNCHANGED <<shared, req, loaded, creds, service, times, body, outcome, n,
                   wrote>>

\* Mutant: the read waits while another invocation has the file open for writing.
LoadTokenLocked(p) ==
    /\ pc[p] = "load"
    /\ \A q \in Procs \ {p} : pc[q] # "write"
    /\ loaded' = [loaded EXCEPT ![p] = Some(token_file)]
    /\ \/ /\ token_file.kind = "cred"
          /\ creds' = [creds EXCEPT ![p] = FromJson(token_file)]
          /\ Goto(p, BranchOf(FromJson(token_file)))
          /\ UNCHANGED outcome
       \/ /\ \E e \in OtherErrors : Fail(p, e)
          /\ UNCHANGED creds
    /\ UNCHANGED <<shared, req, found, service, times, body, n, wrote>>

\* Line 30: Credentials.from_authorized_user_file, then the test of lines 33-34.
LoadToken(p) ==
    /\ pc[p] = "load"
    /\ loaded' = [loaded EXCEPT ![p] = Some(token_file)]
    /\ \/ /\ token_file.kind = "cred"
          /\ creds' = [creds EXCEPT ![p] = FromJson(token_file)]
          /\ Goto(p, BranchOf(FromJson(token_file)))
          /\ UNCHANGED outcome
       \/ /\ \E e \in OtherErrors : Fail(p, e)
          /\ UNCHANGED creds
    /\ UNCHANGED <<shared, req, found, service, times, body, n, wrote>>

\* Line 35: creds.refresh(Request())
Refresh(p) ==
    /\ pc[p] = "refresh"
    /\ Count(p, "refresh")
    /\ \/ /\ creds' = [creds EXCEPT ![p].token = nextToken, ![p].expired = FALSE]
          /\ nextToken' = nextToken + 1
          /\ Goto(p, "open")
          /\ UNCHANGED outcome
       \/ /\ \E e \in OtherErrors : Fail(p, e)
          /\ UNCHANGED <<creds, nextToken>>
    /\ UNCHANGED <<token_file, env_tz, calls, req, found, loaded, service, times,
                   body, wrote>>

\* Lines 37-46: InstalledAppFlow.from_client_config(...).run_local_server(port=0)
Flow(p) ==
    /\ pc[p] = "flow"
    /\ Count(p, "flow")
    /\ \/ /\ creds' = [creds EXCEPT ![p] = Content("creds", nextToken, FALSE, TRUE)]
          /\ nextToken' = nextToken + 1
          /\ Goto(p, "open")
          /\ UNCHANGED outcome
       \/ /\ \E e \in OtherErrors : Fail(p, e)
          /\ UNCHANGED <<creds, nextToken>>
    /\ UNCHANGED <<token_file, env_tz, calls, req, found, loaded, service, times,
                   body, wrote>>

\* Line 49: open(token_file, 'w') truncates the file.
OpenWrite(p) ==
    /\ pc[p] = "open"
    /\ Count(p, "open")
    /\ \/ /\ token_file' = FileEmpty
          /\ Goto(p, "write")
          /\ UNCHANGED outcome
       \/ /\ \E e \in OtherErrors : Fail(p, e)
          /\ UNCHANGED token_file
    /\ UNCHANGED <<env_tz, nextToken, calls, req, found, loaded, creds, service,
                   times, body, wrote>>

\* Mutant: the credential is never written back.
WriteCloseSkipped(p) ==
    /\ pc[p] = "write"
    /\ Goto(p, "build")
    /\ UNCHANGED <<shared, req, found, loaded, creds, service, times, body,
                   outcome, n, wrote>>

\* Line 50 and the end of the with block: write and close.
WriteClose(p) ==
    /\ pc[p] = "write"
    /\ Count(p, "write")
    /\ \/ /\ token_file' \in Overlay(token_file, creds[p])
          /\ wrote' = [wrote EXCEPT ![p] = Some(ToJson(creds[p]))]
          /\ Goto(p, "build")
          /\ UNCHANGED outcome
       \/ /\ \E e \in OtherErrors : Fail(p, e)
          /\ UNCHANGED <<token_file, wrote>>
    /\ UNCHANGED <<env_tz, nextToken, calls, req, found, loaded, creds, service,
                   times, body>>

\* Line 52: build('calendar', 'v3', credentials=creds)
Build(p) ==
    /\ pc[p] = "build"
    /\ Count(p, "build")
    /\ \/ /\ service' = [service EXCEPT ![p] = TRUE]
          /\ Goto(p, "parse_start")
          /\ UNCHANGED outcome
       \/ /\ \E e \in HttpErrors \cup OtherErrors : Fail(p, e)
          /\ UNCHANGED service
    /\ UNCHANGED <<shared, req, found, loaded, creds, times, body, wrote>>

\* Line 87: start_datetime = parse_natural_datetime(start_time)
ParseStart(p) ==
    /\ pc[p] = "parse_start"
    /\ Count(p, "parse")
    /\ \E now \in Nows :
          LET r == parse_natural_datetime(req[p][1].start_time, now)
          IN IF r.ok
             THEN /\ start_datetime' = [start_datetime EXCEPT ![p] = Some(r.dt)]
                  /\ Goto(p, "parse_end")
                  /\ UNCHANGED outcome
             ELSE /\ \E e \in OtherErrors : Fail(p, e)
                  /\ UNCHANGED start_datetime
    /\ UNCHANGED <<shared, req, found, loaded, creds, service, end_datetime, body,
                   wrote>>

\* Lines 90-93: the default of one hour, or the resolution of end_time.
ParseEnd(p) ==
    /\ pc[p] = "parse_end"
    /\ IF ~StrTruthy(req[p][1].end_time)
       THEN LET r == AddHour(start_datetime[p][1])
            IN /\ UNCHANGED n
               /\ IF r.ok
                  THEN /\ end_datetime' = [end_datetime EXCEPT ![p] = Some(r.dt)]
                       /\ Goto(p, "insert")
                       /\ UNCHANGED outcome
                  ELSE /\ \E e \in OtherErrors : Fail(p, e)
                       /\ UNCHANGED end_datetime
       ELSE /\ Count(p, "parse")
            /\ \E now \in Nows :
                  LET r == parse_natural_datetime(req[p][1].end_time[1], now)
                  IN IF r.ok
                     THEN /\ end_datetime' = [end_datetime EXCEPT ![p] = Some(r.dt)]
                          /\ Goto(p, "insert")
                          /\ UNCHANGED outcome
                     ELSE /\ \E e \in OtherErrors : Fail(p, e)
                          /\ UNCHANGED end_datetime
    /\ UNCHANGED <<shared, req, found, loaded, creds, service, start_datetime,
                   body, wrote>>

\* Mutant: a calendar-service error makes the invocation insert again.
InsertRetry(p) ==
    /\ pc[p] = "insert"
    /\ Count(p, "insert")
    /\ body' = [body EXCEPT ![p] =
                  Some(BuildEvent(req[p][1], start_datetime[p][1],
                                  end_datetime[p][1], GetTimezone))]
    /\ \/ /\ \E id \in EventIds :
                result' = [result EXCEPT ![p] = Some(SuccessString(id))]
          /\ Goto(p, "done")
          /\ UNCHANGED raised
       \/ /\ n[p].insert < 2
          /\ UNCHANGED <<pc, outcome>>
       \/ \E e \in OtherErrors : Fail(p, e)
    /\ UNCHANGED <<shared, req, found, loaded, creds, service, times, wrote>>

\* Lines 95-117: build the record, insert it into the primary calendar.
Insert(p) ==
    /\ pc[p] = "insert"
    /\ Count(p, "insert")
    /\ body' = [body EXCEPT ![p] =
                  Some(BuildEvent(req[p][1], start_datetime[p][1],
                                  end_datetime[p][1], GetTimezone))]
    /\ \/ /\ \E id \in EventIds :
                result' = [result EXCEPT ![p] = Some(SuccessString(id))]
          /\ Goto(p, "done")
          /\ UNCHANGED raised
       \/ \E e \in HttpErrors \cup OtherErrors : Fail(p, e)
    /\ UNCHANGED <<shared, req, found, loaded, creds, service, times, wrote>>

\* The returned string reaches the caller; the invocation's locals are gone.
Return(p) ==
    /\ pc[p] = "done"
    /\ Goto(p, "idle")
    /\ req' = [req EXCEPT ![p] = None]
    /\ found' = [found EXCEPT ![p] = "unknown"]
    /\ loaded' = [loaded EXCEPT ![p] = None]
    /\ creds' = [creds EXCEPT ![p] = NoCreds]
    /\ service' = [service EXCEPT ![p] = FALSE]
    /\ start_datetime' = [start_datetime EXCEPT ![p] = None]
    /\ end_datetime' = [end_datetime EXCEPT ![p] = None]
    /\ body' = [body EXCEPT ![p] = None]
    /\ result' = [result EXCEPT ![p] = None]
    /\ raised' = [raised EXCEPT ![p] = None]
    /\ n' = [n EXCEPT ![p] = NoCounts]
    /\ wrote' = [wrote EXCEPT ![p] = None]
    /\ UNCHANGED shared

\* Time passes the expiry of the stored access token.
Expire ==
    /\ token_file.kind = "cred"
    /\ ~token_file.expired
    /\ token_file' = [token_file EXCEPT !.expired = TRUE]
    /\ UNCHANGED <<env_tz, nextToken, calls, pc, req, found, loaded, creds, service,
                   times, body, outcome, n, wrote>>

\* One statement of invocation p.
Step(p) ==
    \/ Exists(p)
    \/ LoadToken(p)
    \/ Refresh(p)
    \/ Flow(p)
    \/ OpenWrite(p)
    \/ WriteClose(p)
    \/ Build(p)
    \/ ParseStart(p)
    \/ ParseEnd(p)
    \/ Insert(p)

\* Two callers invoke the tool concurrently and repeatedly.
Next ==
    \/ \E p \in Callers : \E r \in Requests : Invoke(p, r)
    \/ \E p \in Callers : Step(p)
    \/ \E p \in Callers : Return(p)
    \/ Expire

Spec == Init /\ [][Next]_vars

\* Three callers invoke the tool once each, concurrently, when the token
\* file is missing or its credential has expired.
InitRace ==
    /\ Init
    /\ token_file \in {FileAbsent, Content("cred", 1, TRUE, TRUE)}
    /\ env_tz = None

NextRace ==
    \/ \E p \in Procs : \E r \in Requests : Invoke(p, r)
    \/ \E p \in Procs : Step(p)

SpecRace == InitRace /\ [][NextRace]_vars

(***************************************************************************)
(* Time resolution and event construction on every request: invocation p1  *)
(* has obtained its service from a valid stored credential (the state      *)
(* after line 84) and runs lines 87-117 on any request.                    *)
(***************************************************************************)
StoredValid == Content("cred", 1, FALSE, TRUE)

InitEvent ==
    /\ token_file = StoredValid
    /\ env_tz \in {None, Some("Europe/Paris")}
    /\ nextToken = 2
    /\ calls = 1
    /\ pc = [p \in Procs |-> IF p = "p1" THEN "parse_start" ELSE "idle"]
    /\ req \in {[p \in Procs |-> IF p = "p1" THEN Some(r) ELSE None] : r \in AllRequests}
    /\ found = [p \in Procs |-> IF p = "p1" THEN "yes" ELSE "unknown"]
    /\ loaded = [p \in Procs |-> IF p = "p1" THEN Some(StoredValid) ELSE None]
    /\ creds = [p \in Procs |-> IF p = "p1" THEN FromJson(StoredValid) ELSE NoCreds]
    /\ service = [p \in Procs |-> p = "p1"]
    /\ start_datetime = [p \in Procs |-> None]
    /\ end_datetime = [p \in Procs |-> None]
    /\ body = [p \in Procs |-> None]
    /\ result = [p \in Procs |-> None]
    /\ raised = [p \in Procs |-> None]
    /\ n = [p \in Procs |-> IF p = "p1" THEN [NoCounts EXCEPT !.build = 1] ELSE NoCounts]
    /\ wrote = [p \in Procs |-> None]

NextEvent ==
    \/ ParseStart("p1")
    \/ ParseEnd("p1")
    \/ Insert("p1")
    \/ Return("p1")

SpecEvent == InitEvent /\ [][NextEvent]_vars

(***************************************************************************)
(* Properties.                                                             *)
(***************************************************************************)
IsPrefix(a, s) == Len(a) <= Len(s) /\ SubSeq(s, 1, Len(a)) = a
Contains(s, a) == \E i \in 0..(Len(s) - Len(a)) : SubSeq(s, i + 1, i + Len(a)) = a

InFlight(p) == pc[p] \notin {"idle", "done"}
FailedAt(p, label) == raised[p] # None /\ raised[p][1].at = label

\* Invocation p deserialised a credential from the token file.
HasLoaded(p) ==
    /\ loaded[p] # None
    /\ loaded[p][1].kind = "cred"
    /\ ~FailedAt(p, "load")
ExpiredRefreshable(f) == f.expired /\ f.refresh_token

\* C1: whatever step of an invocation fails, no exception leaves the tool: an
\* invocation in flight can always take its next step, a raised exception
\* ends the invocation with a returned string, and a finished invocation
\* holds a non-empty string as its only outcome.
C1_NothingEscapes ==
    \A p \in Procs :
        /\ pc[p] # "escaped"
        /\ InFlight(p) => result[p] = None /\ raised[p] = None /\ ENABLED Step(p)
        /\ raised[p] # None => pc[p] = "done"
        /\ pc[p] = "done" => result[p] # None /\ Len(result[p][1]) > 0

\* An invocation whose time resolution raised has returned a string.
C1_Witness ==
    \E p \in Procs : pc[p] = "done" /\ FailedAt(p, "parse_start") /\ result[p] # None

\* C2: a calendar-service error with message m returns a string that starts
\* "An error occurred:" and contains m; any other exception returns the
\* "An unexpected error occurred:" string; only a successful insert returns
\* the "Event created successfully" string with the service's event id; and
\* no outcome class yields the prefix of another.
C2_OutcomeStrings ==
    \A p \in Procs :
        pc[p] = "done" =>
            LET s == result[p][1]
            IN /\ (raised[p] # None /\ raised[p][1].exc.kind = "HttpError") =>
                     /\ IsPrefix(HttpPrefix, s)
                     /\ Contains(s, <<"An", "error", "occurred">>)
                     /\ Contains(s, raised[p][1].exc.msg)
                     /\ ~IsPrefix(GenericPrefix, s) /\ ~IsPrefix(SuccessPrefix, s)
               /\ (raised[p] # None /\ raised[p][1].exc.kind # "HttpError") =>
                     /\ IsPrefix(GenericPrefix, s)
                     /\ Contains(s, raised[p][1].exc.msg)
                     /\ ~IsPrefix(HttpPrefix, s) /\ ~IsPrefix(SuccessPrefix, s)
               /\ raised[p] = None =>
                     /\ n[p].insert = 1
                     /\ \E id \in EventIds : s = SuccessPrefix \o <<id>>
                     /\ ~IsPrefix(HttpPrefix, s) /\ ~IsPrefix(GenericPrefix, s)
               /\ IsPrefix(SuccessPrefix, s) => raised[p] = None /\ n[p].insert = 1

\* The credential provider (build, line 52) raised a calendar-service error.
C2_Witness ==
    \E p \in Procs :
        /\ pc[p] = "done"
        /\ FailedAt(p, "build")
        /\ raised[p][1].exc.kind = "HttpError"
        /\ n[p].insert = 0

\* C3: an invocation that loaded an expired credential with a refresh token
\* performs exactly one refresh and no interactive authorization, and by the
\* time the calendar service is built it has written the refreshed
\* credential to the token file; the interactive flow runs only without a
\* token file or with a loaded credential that is invalid and not (expired
\* and refreshable).
C3_RefreshNotInteractive ==
    \A p \in Procs :
        /\ (HasLoaded(p) /\ ExpiredRefreshable(loaded[p][1])) =>
              /\ n[p].flow = 0
              /\ n[p].refresh = IF pc[p] = "refresh" THEN 0 ELSE 1
              /\ (pc[p] = "build" \/ n[p].build >= 1) =>
                    /\ n[p].open = 1 /\ n[p].write = 1
                    /\ wrote[p] = Some(ToJson(creds[p]))
                    /\ Valid(creds[p])
                    /\ creds[p].token # loaded[p][1].token
        /\ n[p].flow > 0 =>
              \/ found[p] = "no"
              \/ /\ HasLoaded(p)
                 /\ ~Valid(loaded[p][1])
                 /\ ~ExpiredRefreshable(loaded[p][1])

\* A service built after a refresh of the stored expired credential.
C3_Witness ==
    \E p \in Procs :
        /\ HasLoaded(p) /\ ExpiredRefreshable(loaded[p][1])
        /\ service[p]
        /\ n[p].refresh = 1
        /\ wrote[p] # None

\* C4: without a token file an invocation runs the interactive flow exactly
\* once and no refresh, and it has written the credential the flow yielded
\* to the token file before it goes on to build the service, resolve the
\* times and submit.
C4_InteractiveOnce ==
    \A p \in Procs :
        found[p] = "no" =>
            /\ loaded[p] = None
            /\ n[p].refresh = 0
            /\ n[p].flow = IF pc[p] = "flow" THEN 0 ELSE 1
            /\ (pc[p] \in {"build", "parse_start", "parse_end", "insert"}
                    \/ n[p].build >= 1) =>
                  /\ n[p].open = 1 /\ n[p].write = 1
                  /\ creds[p].kind = "creds" /\ Valid(creds[p])
                  /\ wrote[p] = Some(ToJson(creds[p]))

\* An invocation that found no file is at time resolution, its credential written.
C4_Witness ==
    \E p \in Procs :
        /\ found[p] = "no"
        /\ pc[p] = "parse_start"
        /\ n[p].flow = 1
        /\ wrote[p] # None

\* C5: an invocation that loads a valid stored credential performs no
\* refresh and no interactive authorization and never opens the token file
\* for writing; an invocation writes the token file only after it obtained a
\* new credential by exactly one refresh or one interactive authorization.
C5_ValidStoredIsReused ==
    \A p \in Procs :
        /\ (HasLoaded(p) /\ Valid(loaded[p][1])) =>
              /\ n[p].refresh = 0 /\ n[p].flow = 0
              /\ n[p].open = 0 /\ n[p].write = 0
              /\ wrote[p] = None
              /\ pc[p] \notin {"refresh", "flow", "open", "write"}
        /\ (n[p].open > 0 \/ wrote[p] # None) =>
              /\ n[p].refresh + n[p].flow = 1
              /\ FailedAt(p, "refresh") = FALSE /\ FailedAt(p, "flow") = FALSE
              /\ Valid(creds[p])
              /\ HasLoaded(p) => creds[p].token # loaded[p][1].token

\* A later invocation ran to success on a credential an earlier one persisted.
C5_Witness ==
    \E p \in Procs :
        /\ HasLoaded(p) /\ Valid(loaded[p][1])
        /\ loaded[p][1].token >= 2
        /\ pc[p] = "done" /\ raised[p] = None

OptionalKeys == {"description", "location", "attendees"}
Supplied(r, k) ==
    CASE k = "description" -> r.description # None
      [] k = "location" -> r.location # None
      [] k = "attendees" -> r.attendees # None

\* C6: the record passed to insert always has summary, start{dateTime,
\* timeZone} and end{dateTime, timeZone}; it has the key description,
\* location or attendees only when that argument was supplied, and a key it
\* has carries the supplied, non-empty value: an absent argument leaves no
\* key behind, with no null or empty placeholder.
C6_OptionalKeysOnlyWhenSupplied ==
    \A p \in Procs :
        body[p] # None =>
            LET ev == body[p][1]
                r == req[p][1]
            IN /\ {"summary", "start", "end"} \subseteq DOMAIN ev
               /\ DOMAIN ev \subseteq {"summary", "start", "end"} \cup OptionalKeys
               /\ ev.summary = r.summary
               /\ DOMAIN ev.start = {"dateTime", "timeZone"}
               /\ DOMAIN ev.end = {"dateTime", "timeZone"}
               /\ \A k \in OptionalKeys :
                     /\ k \in DOMAIN ev => Supplied(r, k)
                     /\ ~Supplied(r, k) => k \notin DOMAIN ev
               /\ "description" \in DOMAIN ev =>
                     ev.description = r.description[1] /\ ev.description # ""
               /\ "location" \in DOMAIN ev =>
                     ev.location = r.location[1] /\ ev.location # ""
               /\ "attendees" \in DOMAIN ev => Len(ev.attendees) > 0

\* A submitted record with attendees only: no description, no location key.
C6_Witness ==
    \E p \in Procs :
        /\ body[p] # None
        /\ req[p][1].description = None
        /\ req[p][1].location = None
        /\ req[p][1].attendees # None
        /\ DOMAIN body[p][1] = {"summary", "start", "end", "attendees"}

FromIso(t) == DT(t[1], t[2], t[3])
Minutes(dt) == (dt.day * 24 + dt.hour) * 60 + dt.minute

\* C7 as stated: without end_time the submitted end is the start plus exactly
\* one hour; with any supplied end_time it is the resolution of end_time; the
\* end carries the start's timeZone, the process-wide value.
C7_AsStated ==
    \A p \in Procs :
        body[p] # None =>
            LET ev == body[p][1]
                r == req[p][1]
            IN /\ ev.end.timeZone = ev.start.timeZone
               /\ ev.start.timeZone = GetTimezone
               /\ r.end_time = None =>
                     Minutes(FromIso(ev.end.dateTime))
                         = Minutes(FromIso(ev.start.dateTime)) + 60
               /\ r.end_time # None =>
                     \E now \in Nows :
                        LET res == parse_natural_datetime(r.end_time[1], now)
                        IN res.ok /\ ev.end.dateTime = IsoFormat(res.dt)

\* C7 amended: an end_time that is missing or the empty string gives the
\* start plus exactly one hour; a non-empty end_time gives its resolution;
\* in both cases the end carries the start's timeZone, the process-wide value.
C7_EndDefaultsToOneHour ==
    \A p \in Procs :
        body[p] # None =>
            LET ev == body[p][1]
                r == req[p][1]
            IN /\ ev.end.timeZone = ev.start.timeZone
               /\ ev.start.timeZone = GetTimezone
               /\ ev.start.dateTime = IsoFormat(start_datetime[p][1])
               /\ (r.end_time = None \/ r.end_time = Some("")) =>
                     Minutes(FromIso(ev.end.dateTime))
                         = Minutes(FromIso(ev.start.dateTime)) + 60
               /\ (r.end_time # None /\ r.end_time # Some("")) =>
                     \E now \in Nows :
                        LET res == parse_natural_datetime(r.end_time[1], now)
                        IN res.ok /\ ev.end.dateTime = IsoFormat(res.dt)

\* A record submitted for an empty end_time whose start is in the last hour
\* of a day: the end falls on the next day.
C7_Witness ==
    \E p \in Procs :
        /\ body[p] # None
        /\ req[p][1].end_time = Some("")
        /\ start_datetime[p][1].hour = 23
        /\ FromIso(body[p][1].end.dateTime).day = start_datetime[p][1].day + 1

\* C9: a non-empty attendees list is submitted as a sequence of the same
\* length and order whose i-th element is exactly {email: attendees[i]}.
C9_AttendeesInOrder ==
    \A p \in Procs :
        (body[p] # None /\ req[p][1].attendees # None
                /\ Len(req[p][1].attendees[1]) > 0) =>
            LET sent == body[p][1].attendees
                given == req[p][1].attendees[1]
            IN /\ "attendees" \in DOMAIN body[p][1]
               /\ DOMAIN sent = 1..Len(given)
               /\ \A i \in 1..Len(given) :
                     DOMAIN sent[i] = {"email"} /\ sent[i].email = given[i]

\* ["a@x.com","b@x.com"] is submitted as [{email: a@x.com}, {email: b@x.com}].
C9_Witness ==
    \E p \in Procs :
        /\ body[p] # None
        /\ req[p][1].attendees = Some(<<"a@x.com", "b@x.com">>)
        /\ body[p][1].attendees = <<[email |-> "a@x.com"], [email |-> "b@x.com"]>>
        /\ DOMAIN body[p][1] = {"summary", "start", "end", "attendees"}

FileSection == {"exists", "load", "refresh", "flow", "open", "write"}

\* C8: nothing serialises the load / refresh-or-authorize / write sequences
\* of two invocations: wherever another invocation stands in its own
\* sequence, also between truncating the file and writing it, an invocation
\* can take its next step on the file; and a read that meets the truncated or
\* mixed content of another invocation's write ends the reader at line 30.
C8_NoMutualExclusion ==
    \A p \in Procs : \A q \in Procs \ {p} :
        /\ (pc[p] \in FileSection /\ pc[q] \in FileSection) => ENABLED Step(p)
        /\ (pc[p] = "load" /\ pc[q] = "write") => ENABLED LoadToken(p)
        /\ (pc[p] = "open" /\ pc[q] = "write") => ENABLED OpenWrite(p)
        /\ (loaded[p] # None /\ loaded[p][1].kind \in {"empty", "torn"}) =>
              pc[p] = "done" /\ FailedAt(p, "load")

\* Two invocations loaded the same stored credential, each refreshed or
\* authorized for it, both wrote, and the file holds what the later writer
\* wrote, the other's credential being lost; a third invocation read the
\* file while it was truncated and failed at line 30.
C8_Witness ==
    \E p \in Procs : \E q \in Procs \ {p} : \E r \in Procs \ {p, q} :
        /\ HasLoaded(p) /\ HasLoaded(q)
        /\ loaded[p][1].token = loaded[q][1].token
        /\ n[p].refresh + n[p].flow = 1
        /\ n[q].refresh + n[q].flow = 1
        /\ wrote[p] # None /\ wrote[q] # None
        /\ wrote[p] # wrote[q]
        /\ token_file = wrote[q][1]
        /\ loaded[r] = Some(FileEmpty)
        /\ pc[r] = "done" /\ FailedAt(r, "load")

AtMostOnce(c) ==
    /\ \A k \in {"refresh", "flow", "open", "write", "build", "insert"} : c[k] <= 1
    /\ c.parse <= 2

\* C10: within one invocation every step is issued at most once (one parse
\* per time argument); the insert is issued only when the service was built
\* and start and end were resolved with nothing raised; once a step has
\* raised, the invocation issues nothing further; and the step that raises
\* leaves the token file as the invocation's earlier write left it.
C10_NoRetryNoRollback ==
    [][\A p \in Procs :
          /\ AtMostOnce(n'[p])
          /\ n'[p].insert > n[p].insert =>
                /\ n[p].insert = 0
                /\ raised[p] = None
                /\ service[p] /\ n[p].build = 1
                /\ start_datetime[p] # None /\ end_datetime[p] # None
          /\ raised[p] # None => (n'[p] = n[p] \/ pc'[p] = "idle")
          /\ (raised[p] = None /\ raised'[p] # None) =>
                /\ token_file' = token_file
                /\ wrote'[p] = wrote[p]
                /\ pc'[p] = "done"
                /\ raised'[p][1].at # "insert" => n'[p].insert = 0
      ]_vars

\* An invocation wrote the token file, then failed at the insert; the file
\* still holds what it wrote.
C10_Witness ==
    \E p \in Procs :
        /\ pc[p] = "done"
        /\ FailedAt(p, "insert")
        /\ n[p].insert = 1
        /\ wrote[p] # None
        /\ token_file = wrote[p][1]

====
